---- MODULE Spec2Model ----
(***************************************************************************)
(* MemoryManager of td/telegram/MemoryManager.cpp: the actor that walks    *)
(* the managers of Td, lets each append its memory_stats fragment, and     *)
(* delivers the assembled report through a Promise<MemoryStats>.           *)
(*                                                                         *)
(* get_memory_stats is modelled statement by statement (pc, idx), so that  *)
(* the order of emissions and provider invocations inside one call is      *)
(* visible; every other handler is one action.  The actor runs one handler *)
(* at a time: a handler starts only when pc = "idle".                      *)
(***************************************************************************)
EXTENDS Integers, Sequences, FiniteSets, TLC

VARIABLES
  td_,          \* MemoryManager::td_, the enclosing Td
  parent_,      \* MemoryManager::parent_, "parent" or "empty" after reset()
  life,         \* actor lifecycle: "constructed", "started", "stopped"
  is_bot,       \* what td_->auth_manager_->is_bot() answers
  provState,    \* per manager: how many counters it currently reports
  pc,           \* position inside get_memory_stats, "idle" outside of it
  idx,          \* entry of print_managers_memory_stats being executed
  full,         \* the full argument of the current (or latest) call
  output,       \* the local vector<string> output of get_memory_stats
  invocations,  \* the memory_stats calls made by the current (or latest) call
  promise,      \* the promise of the current (or latest) call
  prev,         \* value and full of the call before, if no manager changed since
  dirty,        \* a manager changed its reportable state since the last call began
  updates_in,   \* the updates vector as handed to the latest get_current_state
  updates,      \* the same vector when get_current_state returned
  failed        \* the manager whose memory_stats threw, "" if none

vars == <<td_, parent_, life, is_bot, provState, pc, idx, full, output,
          invocations, promise, prev, dirty, updates_in, updates, failed>>

----------------------------------------------------------------------------
(* Bounds of the model.                                                    *)

\* managers (from the head of the registry) whose reportable state varies
MaxChanging == 2
\* counters one manager reports at most
MaxCounters == 2
\* length of the updates vector handed to get_current_state at most
MaxUpdates == 1

----------------------------------------------------------------------------
(* The registry: the keys written by print_managers_memory_stats, in the   *)
(* order of its statements.  Every entry calls the td_ member of the same  *)
(* name as its key.                                                        *)

ManagerNames ==
  <<
     "file_manager_", "business_connection_manager_", "channel_recommendation_manager_",
     "chat_manager_", "connection_state_manager_", "inline_message_manager_",
     "online_manager_", "promo_data_manager_", "star_manager_",
     "terms_of_service_manager_", "user_manager_", "account_manager_",
     "animations_manager_", "attach_menu_manager_", "audios_manager_",
     "auth_manager_", "autosave_manager_", "background_manager_",
     "boost_manager_", "bot_info_manager_", "business_manager_",
     "callback_queries_manager_", "common_dialog_manager_", "country_info_manager_",
     "dialog_action_manager_", "dialog_filter_manager_", "dialog_invite_link_manager_",
     "dialog_manager_", "dialog_participant_manager_", "documents_manager_",
     "download_manager_", "file_reference_manager_", "forum_topic_manager_",
     "game_manager_", "group_call_manager_", "inline_queries_manager_",
     "link_manager_", "message_import_manager_", "messages_manager_",
     "notification_manager_", "notification_settings_manager_", "option_manager_",
     "people_nearby_manager_", "poll_manager_", "privacy_manager_",
     "quick_reply_manager_", "reaction_manager_", "saved_messages_manager_",
     "sponsored_message_manager_", "statistics_manager_", "stickers_manager_",
     "story_manager_", "theme_manager_", "time_zone_manager_",
     "top_dialog_manager_", "transcription_manager_", "translation_manager_",
     "updates_manager_", "video_notes_manager_", "videos_manager_",
     "voice_notes_manager_", "web_pages_manager_"
  >>

NumManagers == Len(ManagerNames)

Managers == {ManagerNames[k] : k \in 1..NumManagers}

\* faulty variant: the second entry calls the first manager again
CalleeRepeated(k) == IF k = 2 THEN ManagerNames[1] ELSE ManagerNames[k]

\* the td_ member whose memory_stats entry k calls
Callee(k) == ManagerNames[k]

\* faulty variant: the second entry repeats the key of the first
KeyOfRepeated(k) == IF k = 2 THEN ManagerNames[1] ELSE ManagerNames[k]

\* the key literal entry k writes
KeyOf(k) == ManagerNames[k]

\* output.push_back("\"<name>\":{")
EntryOpen(name) == "\"" \o name \o "\":{"

\* faulty variant: a "," after the last entry too
SeparatorAlways(k) == <<",">>

\* the pieces pushed after the closing brace of entry k: a "," after every
\* entry but the last one
SeparatorAfter(k) == IF k < NumManagers THEN <<",">> ELSE <<>>

\* variant: full handed on to every manager
ForwardedThrough(f) == <<f>>

\* the flag arguments print_managers_memory_stats hands to memory_stats:
\* print_managers_memory_stats(output) and memory_stats(output) take the
\* output buffer alone, full is not among them
ForwardedFull(f) == <<>>

----------------------------------------------------------------------------
(* The managers' side of memory_stats.                                     *)

RECURSIVE Counters(_)
Counters(n) ==
  IF n = 0 THEN <<>>
  ELSE IF n = 1 THEN <<"\"c1\":1">>
  ELSE Counters(n - 1) \o <<",", "\"c" \o ToString(n) \o "\":1">>

\* the fragments a manager reporting n counters appends; a manager that is
\* handed full = TRUE reports in its verbose form
memory_stats(n, flags) ==
  IF flags = <<TRUE>> THEN <<"\"full\":true">> \o (IF n = 0 THEN <<>> ELSE <<",">>) \o Counters(n)
  ELSE Counters(n)

Changing == {ManagerNames[k] : k \in 1..MaxChanging}

----------------------------------------------------------------------------
(* Promise<MemoryStats> and MemoryStats.                                   *)

MemoryStats(s) == [debug |-> s]

NewPromise == [exists |-> TRUE, values |-> <<>>]

\* faulty variant: the value is dropped
set_value_lost(p, v) == p

\* promise.set_value(std::move(value))
set_value(p, v) == [p EXCEPT !.values = Append(@, v)]

\* accumulate(output.begin(), output.end(), s): the pieces appended to s in
\* the order of the range (the first half of the range, then the second)
RECURSIVE accumulate(_, _)
accumulate(out, s) ==
  IF out = <<>> THEN s
  ELSE IF Len(out) = 1 THEN s \o out[1]
  ELSE LET h == Len(out) \div 2
       IN accumulate(SubSeq(out, 1, h), s) \o accumulate(SubSeq(out, h + 1, Len(out)), "")

\* variant: an update is appended for a session that is not a bot
get_current_state_emits(bot, upd) ==
  IF bot THEN upd ELSE Append(upd, "updateMemoryStatistics")

\* get_current_state(updates): the vector after the call; both branches
\* return without touching it
get_current_state(bot, upd) == IF bot THEN upd ELSE upd

UpdateKinds == {"updateOption"}

UpdateSeqs == UNION {[1..n -> UpdateKinds] : n \in 0..MaxUpdates}

----------------------------------------------------------------------------
Init ==
  /\ td_ = "td"
  /\ parent_ = "parent"
  /\ life = "constructed"
  /\ is_bot \in BOOLEAN
  /\ provState = [m \in Managers |-> 0]
  /\ pc = "idle"
  /\ idx = 0
  /\ full = FALSE
  /\ output = <<>>
  /\ invocations = <<>>
  /\ promise = [exists |-> FALSE, values |-> <<>>]
  /\ prev = <<>>
  /\ dirty = FALSE
  /\ updates_in = <<>>
  /\ updates = <<>>
  /\ failed = ""

actorVars == <<td_, parent_, life>>
callVars == <<pc, idx, full, output, invocations, promise, prev, dirty>>
stateVars == <<updates_in, updates>>

\* MemoryManager::start_up
StartUp ==
  /\ life = "constructed"
  /\ life' = "started"
  /\ UNCHANGED <<td_, parent_, is_bot, provState, callVars, stateVars, failed>>

\* MemoryManager::tear_down
TearDown ==
  /\ life = "started"
  /\ pc = "idle"
  /\ parent_' = "empty"
  /\ life' = "stopped"
  /\ UNCHANGED <<td_, is_bot, provState, callVars, stateVars, failed>>

\* a manager changes what it reports, between two handlers of the actor
ProviderChange(m, n) ==
  /\ life = "started"
  /\ pc = "idle"
  /\ provState[m] # n
  /\ provState' = [provState EXCEPT ![m] = n]
  /\ dirty' = TRUE
  /\ UNCHANGED <<actorVars, is_bot, pc, idx, full, output, invocations,
                 promise, prev, stateVars, failed>>

\* MemoryManager::get_current_state
GetCurrentState(u) ==
  /\ life = "started"
  /\ pc = "idle"
  /\ updates_in' = u
  /\ updates' = get_current_state(is_bot, u)
  /\ UNCHANGED <<actorVars, is_bot, provState, callVars, failed>>

\* get_memory_stats, entry: the local output and its first two pieces
BeginStats(f) ==
  /\ life = "started"
  /\ pc = "idle"
  /\ full' = f
  /\ promise' = NewPromise
  /\ prev' = IF ~dirty /\ Len(promise.values) = 1
             THEN <<[value |-> promise.values[1], full |-> full]>>
             ELSE <<>>
  /\ dirty' = FALSE
  /\ output' = <<"{", "\"memory_stats\":{">>
  /\ invocations' = <<>>
  /\ idx' = 1
  /\ pc' = "open"
  /\ UNCHANGED <<actorVars, is_bot, provState, stateVars, failed>>

\* print_managers_memory_stats, entry idx: output.push_back("\"<name>\":{")
EmitOpen ==
  /\ pc = "open"
  /\ output' = Append(output, EntryOpen(KeyOf(idx)))
  /\ pc' = "invoke"
  /\ UNCHANGED <<actorVars, is_bot, provState, idx, full, invocations, promise,
                 prev, dirty, stateVars, failed>>

\* entry idx: td_-><name>->memory_stats(output), which returns
Invoke ==
  /\ pc = "invoke"
  /\ LET fragments == memory_stats(provState[Callee(idx)], ForwardedFull(full))
     IN /\ invocations' = Append(invocations,
              [provider |-> Callee(idx), flags |-> ForwardedFull(full),
               at |-> Len(output), fragments |-> fragments])
        /\ output' = output \o fragments
  /\ pc' = "close"
  /\ UNCHANGED <<actorVars, is_bot, provState, idx, full, promise, prev, dirty,
                 stateVars, failed>>

\* entry idx: output.push_back("}")
EmitClose ==
  /\ pc = "close"
  /\ output' = Append(output, "}")
  /\ pc' = "next"
  /\ UNCHANGED <<actorVars, is_bot, provState, idx, full, invocations, promise,
                 prev, dirty, stateVars, failed>>

\* the separator after entry idx, then the next entry or the end of
\* print_managers_memory_stats
Advance ==
  /\ pc = "next"
  /\ output' = output \o SeparatorAfter(idx)
  /\ IF idx < NumManagers
       THEN idx' = idx + 1 /\ pc' = "open"
       ELSE idx' = idx /\ pc' = "closing"
  /\ UNCHANGED <<actorVars, is_bot, provState, full, invocations, promise, prev,
                 dirty, stateVars, failed>>

\* get_memory_stats after print_managers_memory_stats: the two closing braces
CloseEnvelope ==
  /\ pc = "closing"
  /\ output' = output \o <<"}", "}">>
  /\ pc' = "resolve"
  /\ UNCHANGED <<actorVars, is_bot, provState, idx, full, invocations, promise,
                 prev, dirty, stateVars, failed>>

\* faulty variant: the call goes on to return with the promise still pending
ResolveDeferred ==
  /\ pc = "resolve"
  /\ pc' = "return"
  /\ UNCHANGED <<actorVars, is_bot, provState, idx, full, output, invocations,
                 promise, prev, dirty, stateVars, failed>>

\* s = accumulate(...); promise.set_value(MemoryStats(s))
Resolve ==
  /\ pc = "resolve"
  /\ promise' = set_value(promise, MemoryStats(accumulate(output, "")))
  /\ pc' = "return"
  /\ UNCHANGED <<actorVars, is_bot, provState, idx, full, output, invocations,
                 prev, dirty, stateVars, failed>>

\* faulty variant: the call releases parent_ as tear_down does
ReturnResetsParent ==
  /\ pc = "return"
  /\ output' = <<>>
  /\ parent_' = "empty"
  /\ pc' = "idle"
  /\ UNCHANGED <<td_, life, is_bot, provState, idx, full, invocations, promise,
                 prev, dirty, stateVars, failed>>

\* get_memory_stats returns to its caller; the local output is gone
Return ==
  /\ pc = "return"
  /\ output' = <<>>
  /\ pc' = "idle"
  /\ UNCHANGED <<actorVars, is_bot, provState, idx, full, invocations, promise,
                 prev, dirty, stateVars, failed>>

\* entry idx: memory_stats throws; nothing in print_managers_memory_stats or
\* get_memory_stats catches, so both are left with output and promise
\* destroyed and no statement after the call executed
ProviderThrows ==
  /\ pc = "invoke"
  /\ failed' = Callee(idx)
  /\ invocations' = Append(invocations,
        [provider |-> Callee(idx), flags |-> ForwardedFull(full),
         at |-> Len(output), fragments |-> <<>>])
  /\ output' = <<>>
  /\ pc' = "unwound"
  /\ UNCHANGED <<actorVars, is_bot, provState, idx, full, promise, prev, dirty,
                 stateVars>>

Next ==
  \/ StartUp
  \/ TearDown
  \/ \E m \in Changing, n \in 0..MaxCounters : ProviderChange(m, n)
  \/ \E u \in UpdateSeqs : GetCurrentState(u)
  \/ \E f \in BOOLEAN : BeginStats(f)
  \/ EmitOpen
  \/ Invoke
  \/ EmitClose
  \/ Advance
  \/ CloseEnvelope
  \/ Resolve
  \/ Return

Spec == Init /\ [][Next]_vars

NextFault == Next \/ ProviderThrows

SpecFault == Init /\ [][NextFault]_vars

----------------------------------------------------------------------------
(* The report format of the specification, stated on its own: entries are  *)
(* records [name, fragment].                                               *)

RECURSIVE Concat(_)
Concat(pieces) ==
  IF pieces = <<>> THEN ""
  ELSE Concat(SubSeq(pieces, 1, Len(pieces) - 1)) \o pieces[Len(pieces)]

EntryText(e) == "\"" \o e.name \o "\":{" \o e.fragment \o "}"

\* the entries joined by one "," between neighbours
RECURSIVE JoinEntries(_)
JoinEntries(es) ==
  IF es = <<>> THEN ""
  ELSE IF Len(es) = 1 THEN EntryText(es[1])
  ELSE LET h == Len(es) \div 2
       IN JoinEntries(SubSeq(es, 1, h)) \o "," \o JoinEntries(SubSeq(es, h + 1, Len(es)))

EnvelopeOf(es) == "{\"memory_stats\":{" \o JoinEntries(es) \o "}}"

\* the registry paired with what each manager appended during this call
CallEntries ==
  [k \in 1..Len(invocations) |->
     [name |-> ManagerNames[k], fragment |-> Concat(invocations[k].fragments)]]

InCall == pc \in {"open", "invoke", "close", "next", "closing", "resolve", "return"}

Completed == pc = "idle" /\ promise.exists

----------------------------------------------------------------------------
\* C1: every call of get_memory_stats resolves its promise exactly once with
\* a MemoryStats value: never twice at any moment, and exactly once when the
\* call has returned, whatever full was and whatever the managers appended.
C1_ResolvedExactlyOnce ==
  /\ Len(promise.values) <= 1
  /\ Completed =>
       /\ Len(promise.values) = 1
       /\ DOMAIN promise.values[1] = {"debug"}
       /\ promise.values[1].debug \in STRING

C1_Witness ==
  /\ Completed
  /\ full
  /\ prev # <<>>
  /\ provState[ManagerNames[1]] = MaxCounters
  /\ Len(promise.values) = 1

\* C2: the delivered string is {"memory_stats":{ followed by the entries
\* "name_i":{fragment_i} in registry order, joined by single commas with no
\* leading and no trailing comma, followed by }}; an empty registry gives
\* {"memory_stats":{}} and one provider x with fragment "a":1 gives
\* {"memory_stats":{"x":{"a":1}}}.
C2_EnvelopeFormat ==
  /\ EnvelopeOf(<<>>) = "{\"memory_stats\":{}}"
  /\ EnvelopeOf(<<[name |-> "x", fragment |-> "\"a\":1"]>>)
       = "{\"memory_stats\":{\"x\":{\"a\":1}}}"
  /\ (pc = "return" /\ promise.values # <<>>) =>
       /\ Len(CallEntries) = NumManagers
       /\ promise.values[1].debug = EnvelopeOf(CallEntries)

C2_Witness ==
  /\ pc = "return"
  /\ Len(promise.values) = 1
  /\ provState[ManagerNames[1]] = MaxCounters
  /\ MaxCounters >= 2

\* C3: if the fragment generation of one provider fails during a call, the
\* promise of the call is still resolved and every other provider has its
\* entry in the delivered report.
C3_FaultIsolation ==
  failed # "" =>
    /\ Len(promise.values) = 1
    /\ \A k \in 1..NumManagers :
         ManagerNames[k] # failed =>
           \E j \in DOMAIN invocations : invocations[j].provider = ManagerNames[k]

\* C4: get_current_state appends nothing: the updates vector after the call
\* equals the vector handed in, for both values of is_bot.
C4_NoUpdatesAppended == updates = updates_in

C4_Witness ==
  /\ ~is_bot
  /\ Len(updates_in) = MaxUpdates
  /\ MaxUpdates >= 1
  /\ Completed

\* C5: no key is written twice in one report: the 62 registry names are
\* pairwise distinct and the keys written by one call are as many as they
\* are distinct.
C5_KeysDistinct ==
  /\ NumManagers = 62
  /\ Cardinality(Managers) = NumManagers
  /\ pc = "return" =>
       LET keyPos == {p \in DOMAIN output :
                        \E k \in 1..NumManagers : output[p] = EntryOpen(ManagerNames[k])}
       IN /\ Cardinality(keyPos) = NumManagers
          /\ Cardinality({output[p] : p \in keyPos}) = Cardinality(keyPos)

C5_Witness ==
  /\ pc = "return"
  /\ Len(promise.values) = 1
  /\ Len(invocations) = NumManagers
  /\ provState[ManagerNames[1]] = 1

\* C6: two calls in succession with no manager changing in between deliver
\* identical strings, whatever full was in either call.
C6_Idempotent ==
  (prev # <<>> /\ promise.values # <<>>) => promise.values[1] = prev[1].value

C6_Witness ==
  /\ Completed
  /\ prev # <<>>
  /\ prev[1].full # full
  /\ Len(promise.values) = 1
  /\ provState[ManagerNames[1]] = MaxCounters

\* C7: every step of get_memory_stats leaves the managers' reportable state,
\* td_, parent_ and everything else outside the call unchanged: only the
\* call's own buffer, log and promise change.
C7_NoSideEffect ==
  [][pc' # pc =>
       /\ provState' = provState
       /\ td_' = td_
       /\ parent_' = parent_
       /\ life' = life
       /\ is_bot' = is_bot
       /\ updates' = updates
       /\ updates_in' = updates_in]_vars

C7_Witness ==
  /\ Completed
  /\ Len(promise.values) = 1
  /\ parent_ = "parent"
  /\ provState[ManagerNames[1]] = 1
  /\ updates_in # <<>>

\* C8: within one call every registered provider is invoked exactly once, in
\* registry order: invocation k is of the k-th manager, it starts right
\* after "name_k":{ was emitted, and (k > 1) after the fragments of manager
\* k-1, its closing } and the separator , were emitted.
C8_InvokedOnceInOrder ==
  /\ \A k \in DOMAIN invocations : invocations[k].provider = ManagerNames[k]
  /\ InCall =>
       /\ Len(invocations) =
            (IF pc \in {"open", "invoke"} THEN idx - 1
             ELSE IF pc \in {"close", "next"} THEN idx ELSE NumManagers)
       /\ \A k \in DOMAIN invocations :
            LET at == invocations[k].at
            IN /\ output[at] = EntryOpen(ManagerNames[k])
               /\ k = 1 => at = 3
               /\ k > 1 =>
                    /\ output[at - 1] = ","
                    /\ output[at - 2] = "}"
                    /\ at = invocations[k - 1].at
                             + Len(invocations[k - 1].fragments) + 3
  /\ Completed => Len(invocations) = NumManagers

C8_Witness ==
  /\ pc = "invoke"
  /\ idx = NumManagers
  /\ Len(invocations) = NumManagers - 1
  /\ provState[ManagerNames[1]] = MaxCounters

\* C9 (state part and step part, combined in C9_ResolvedWithinTurn below):
\* the call runs to completion in one turn: the promise is unresolved
\* until the last provider was invoked and both closing braces emitted, it is
\* resolved when the call is about to return, and from the start of the call
\* to its resolution no get_current_state, tear_down or further
\* get_memory_stats runs.
C9_StateInTurn ==
  /\ pc \in {"open", "invoke", "close", "next", "closing", "resolve"} =>
       promise.values = <<>>
  /\ pc = "return" =>
       /\ Len(promise.values) = 1
       /\ Len(invocations) = NumManagers
       /\ Len(output) >= 2
       /\ output[Len(output)] = "}"
       /\ output[Len(output) - 1] = "}"
  /\ Completed => Len(promise.values) = 1

C9_StepInTurn ==
  (promise.exists /\ promise.values = <<>>) =>
    /\ updates' = updates
    /\ updates_in' = updates_in
    /\ life' = life
    /\ parent_' = parent_
    /\ provState' = provState
    /\ full' = full
    /\ promise'.exists
    /\ Len(invocations') >= Len(invocations)

\* C9: the state and step conditions above, in every reachable state and
\* on every step.
C9_ResolvedWithinTurn == [](C9_StateInTurn) /\ [][C9_StepInTurn]_vars

C9_Witness ==
  /\ pc = "return"
  /\ Len(promise.values) = 1
  /\ prev # <<>>
  /\ updates_in # <<>>

\* C10: every provider invocation of a call with full = b receives b.
C10_FullPassedThrough ==
  \A k \in DOMAIN invocations : invocations[k].flags = <<full>>

====
